---- MODULE Spec2Model ----
(***************************************************************************)
(* Model of ha/util/message_bus.py (cortx-ha): the MessageBusConsumer      *)
(* worker loop with its stop / flush / join protocol, the MessageBus       *)
(* facade's register, and MessageBusProducer.publish.                      *)
(***************************************************************************)
EXTENDS Integers, Sequences, FiniteSets, TLC

(***************************************************************************)
(* Bounds of the model.                                                    *)
(***************************************************************************)
MaxMsgs == 3        \* messages the producers put in the topic
MaxCalls == 3       \* callback invocations counted per message (then "3 or more")
MaxAcks == 2        \* acks counted per message (then "2 or more")
MaxStops == 2       \* calls of stop()
MaxThreads == 2     \* worker threads start() may create
MaxRegCalls == 2    \* register() calls per caller
MaxPublish == 2     \* publish() calls
MaxListLen == 2     \* length of the lists handed to publish()
MaxInits == 2       \* calls of MessageBus.init()
MaxConsumers == 1   \* calls of MessageBus.get_consumer()
MaxDeregCalls == 1  \* deregister() calls per caller

Threads == 1..MaxThreads
Msgs == 1..MaxMsgs
None == 0

(***************************************************************************)
(* class CONSUMER_STATUS                                                   *)
(***************************************************************************)
SUCCESS == "success"
FAILED == "failed"
FAILED_STOP == "failed_stop"
SUCCESS_STOP == "success_stop"

\* What a callback can hand back: a member of CONSUMER_STATUS, no value
\* (Python's None, written "None"), or any other value ("other").
Returns == {SUCCESS, FAILED, FAILED_STOP, SUCCESS_STOP, "None", "other"}

VARIABLES
    stop_flag,        \* self._stop (threading.Event): is_set()
    flush_on_exit,    \* self.flush_on_exit
    consumer_thread,  \* self.consumer_thread: None or the thread last started
    pc,               \* per worker thread: its position in run()
    retry,            \* per worker thread: run()'s local retry
    message,          \* per worker thread: run()'s local message (None: unbound)
    status,           \* per worker thread: run()'s local status
    produced,         \* transport: messages 1..produced were sent to the topic
    delivered,        \* transport: messages 1..delivered were yielded by receive
    lastReceived,     \* transport: the message self.consumer yielded last
    obs,              \* what happened to the message the consumer yielded last
    lastEv,           \* the last receive / callback / ack a worker performed
    ackCalls,         \* per message: ack() calls issued for it
    handling,         \* per worker thread: the message last handed to the callback
    stopMark,         \* messages yielded before the first stop(flush=True) returned
    timeout,          \* self.timeout
    pollTimeout,      \* <<n>>: the timeout argument of the receive call made
                      \* last; <<>> before the first
    stopPc,           \* the caller of stop(): its position in stop()
    stopArg,          \* the caller of stop(): the flush argument of the call
    stopCalls,        \* number of stop() calls begun
    joinPc,           \* the caller of join(): "idle", "waiting", "returned"
    joinTarget,       \* the thread join() waits for
    registered,       \* transport admin: the message types that exist
    created,          \* transport admin: per type, how often it was created
    rpc,              \* per caller of register(): its position in register()
    rtype,            \* per caller of register(): the message_type argument
    rseen,            \* per caller: what list_message_types() showed
    rerr,             \* per caller: str(e) of the exception caught, "" if none
    rcalls,           \* per caller: register() calls begun
    gpCall,           \* per caller: it is inside get_producer()
    gpResult,         \* per caller: how its last facade call ended for a
                      \* Producer: "none", "producer" (returned), "raised"
    transportInits,   \* calls of utils_message_bus.init() made so far
    consumersMade,    \* MessageBusConsumer objects get_consumer() returned
    dpc,              \* per caller of deregister(): its position in deregister()
    dtype,            \* per caller of deregister(): the message_type argument
    derr,             \* per caller: str(e) of the exception deregister() raised
    dcalls,           \* per caller: deregister() calls begun
    pubPc,            \* the caller of publish(): "idle" or "called"
    pubArg,           \* the message argument of publish()
    pubResult,        \* how the last publish() ended: "none", "sent", "raised"
    pubCalls,         \* publish() calls begun
    sendsBefore,      \* number of send() calls when the last publish() began
    sent              \* the producer's send() calls: the batch of each

vars == <<stop_flag, flush_on_exit, consumer_thread, pc, retry, message, status,
          produced, delivered, lastReceived, obs, lastEv, ackCalls,
          handling, stopMark, timeout, pollTimeout,
          stopPc, stopArg, stopCalls, joinPc, joinTarget,
          registered, created, rpc, rtype, rseen, rerr, rcalls,
          gpCall, gpResult, transportInits, consumersMade,
          dpc, dtype, derr, dcalls,
          pubPc, pubArg, pubResult, pubCalls, sendsBefore, sent>>

workerVars == <<pc, retry, message, status>>
transportVars == <<produced, delivered, lastReceived>>
stopVars == <<stop_flag, flush_on_exit, stopPc, stopArg, stopCalls>>
joinVars == <<joinPc, joinTarget>>
consumerVars == <<stop_flag, flush_on_exit, consumer_thread, pc, retry, message,
                  status, produced, delivered, lastReceived, obs, lastEv, ackCalls,
                  handling, stopMark, stopPc, stopArg, stopCalls, joinPc,
                  joinTarget, timeout, pollTimeout>>
configVars == <<timeout>>
registerVars == <<registered, created, rpc, rtype, rseen, rerr, rcalls>>
factoryVars == <<gpCall, gpResult, transportInits, consumersMade>>
deregVars == <<dpc, dtype, derr, dcalls>>
facadeVars == <<registered, created, rpc, rtype, rseen, rerr, rcalls,
                gpCall, gpResult, transportInits, consumersMade,
                dpc, dtype, derr, dcalls>>
producerVars == <<pubPc, pubArg, pubResult, pubCalls, sendsBefore, sent>>

(***************************************************************************)
(* Observation of the run.  An event is what one worker did to the         *)
(* transport or to the callback:                                           *)
(*   op "recv":  res "msg" (msg yielded), "none" (timeout) or "err"        *)
(*   op "call":  msg handed to the callback, res its return or "raise"     *)
(*   op "ack":   msg the transport acknowledges, res "ok" or "err"         *)
(* phase is "main" (the while loop) or "drain" (the flush loop).           *)
(* lastEv is the latest event.  obs describes the message the consumer     *)
(* yielded last: the loop that received it, the number of callback         *)
(* invocations on it, whether the first of them raised, and the latest     *)
(* outcome.  ackCalls[m] counts the ack() calls issued while m was the     *)
(* message received last (lastEv tells whether the latest returned).       *)
(* handling[t] is the message worker t handed to the callback last.        *)
(***************************************************************************)
Event(t, phase, op, m, res) ==
    [th |-> t, phase |-> phase, op |-> op, msg |-> m, res |-> res]

NoEvent == Event(None, "none", "none", None, "none")

NewObs(phase) ==
    [phase |-> phase, calls |-> 0, firstRaised |-> FALSE, last |-> "unset"]

ObsCall(o, res) ==
    [o EXCEPT !.calls = IF o.calls < MaxCalls THEN o.calls + 1 ELSE o.calls,
              !.firstRaised = IF o.calls = 0 THEN res = "raise" ELSE o.firstRaised,
              !.last = res]

Count(f, m) ==
    IF m \in Msgs /\ f[m] < MaxAcks THEN [f EXCEPT ![m] = f[m] + 1] ELSE f

Observe(e, o) ==
    /\ lastEv' = e
    /\ obs' = o

\* the transport's ack(): it acknowledges the message received last
TransportAck(t, phase, ok) ==
    /\ lastEv' = Event(t, phase, "ack", lastReceived, IF ok THEN "ok" ELSE "err")
    /\ ackCalls' = Count(ackCalls, lastReceived)
    /\ UNCHANGED obs

ackVars == <<ackCalls>>
ghostVars == <<obs, lastEv, ackCalls, handling, stopMark, pollTimeout>>

\* Mutant of Terminated: the thread counts as ended once it left the polling
\* loop, its flush loop still to run.
Terminated_AtLoopExit(t) ==
    pc[t] \in {"flush_check", "drain_receive", "drain_ack", "done", "crashed"}

\* the thread has ended: run() returned, or an exception left it
Terminated(t) == pc[t] \in {"done", "crashed"}

(***************************************************************************)
(* MessageBusConsumer.__init__                                             *)
(***************************************************************************)
\* get_consumer's default for its timeout argument
DefaultTimeout == 0

\* the timeout arguments the callers of get_consumer pass
Timeouts == {0, 2, 5}

ConsumerNew(tmo) ==
    /\ timeout = tmo
    /\ pollTimeout = <<>>
    /\ stop_flag = FALSE
    /\ flush_on_exit = FALSE
    /\ consumer_thread = None
    /\ pc = [t \in Threads |-> "unstarted"]
    /\ retry = [t \in Threads |-> FALSE]
    /\ message = [t \in Threads |-> None]
    /\ status = [t \in Threads |-> "unset"]
    /\ produced = 0
    /\ delivered = 0
    /\ lastReceived = None
    /\ obs = NewObs("none")
    /\ ackCalls = [m \in Msgs |-> 0]
    /\ handling = [t \in Threads |-> None]
    /\ lastEv = NoEvent
    /\ stopMark = -1
    /\ stopPc = "idle"
    /\ stopArg = FALSE
    /\ stopCalls = 0
    /\ joinPc = "idle"
    /\ joinTarget = None

ConsumerInit == ConsumerNew(DefaultTimeout)

(***************************************************************************)
(* The transport (cortx.utils MessageConsumer / MessageProducer), as run() *)
(* and the producers use it.  The topic holds messages delivered+1 ..      *)
(* produced, in the order they were sent.                                  *)
(***************************************************************************)
TopicEmpty == delivered = produced
NextMessage == delivered + 1

\* A producer's send of one message to the topic.
Inject ==
    /\ produced < MaxMsgs
    /\ produced' = produced + 1
    /\ UNCHANGED <<delivered, lastReceived, ghostVars, consumer_thread>>
    /\ UNCHANGED <<workerVars, stopVars, joinVars>>
    /\ UNCHANGED <<facadeVars, producerVars, configVars>>

(***************************************************************************)
(* MessageBusConsumer.start                                                *)
(***************************************************************************)
\* Mutant of ThreadHandle: start() does not keep the thread it creates.
ThreadHandle_NotKept(t) == None

\* self.consumer_thread = Thread(target=self.run, name=self.name)
ThreadHandle(t) == t

\* Mutant of StopEventAtStart: start() clears the stop event.
StopEventAtStart_Cleared(flag) == FALSE

\* the stop event after start(): start() does not touch self._stop
StopEventAtStart(flag) == flag

Start(t) ==
    /\ pc[t] = "unstarted"
    /\ \A u \in Threads : u < t => pc[u] # "unstarted"
    /\ lastReceived' = None                       \* a new MessageConsumer
    /\ consumer_thread' = ThreadHandle(t)
    /\ pc' = [pc EXCEPT ![t] = "loop"]
    /\ retry' = [retry EXCEPT ![t] = FALSE]       \* run(): retry = False
    /\ obs' = NewObs("none")
    /\ UNCHANGED <<message, status, produced, delivered>>
    /\ stop_flag' = StopEventAtStart(stop_flag)
    /\ UNCHANGED <<lastEv, ackCalls, handling, stopMark, pollTimeout>>
    /\ UNCHANGED <<flush_on_exit, stopPc, stopArg, stopCalls, joinVars>>
    /\ UNCHANGED <<facadeVars, producerVars, configVars>>

\* start() as the Consumer's contract uses it: once per instance.
SingleStart(t) ==
    /\ consumer_thread = None
    /\ Start(t)

(***************************************************************************)
(* MessageBusConsumer.run: the polling loop                                *)
(***************************************************************************)
\* Mutants of LoopTarget: the retry flag is not consulted (a new poll after a
\* retry), and the retry branch is taken before the stop event is tested.
LoopTarget_IgnoresRetry(stopped, again) ==
    IF stopped THEN "flush_check" ELSE "receive"

LoopTarget_RetryBeforeStop(stopped, again) ==
    IF again THEN "callback"
    ELSE IF stopped THEN "flush_check" ELSE "receive"

\* while not self._stop.is_set(): ... if not retry: receive, else callback
LoopTarget(stopped, again) ==
    IF stopped THEN "flush_check"
    ELSE IF ~again THEN "receive" ELSE "callback"

LoopCheck(t) ==
    /\ pc[t] = "loop"
    /\ pc' = [pc EXCEPT ![t] = LoopTarget(stop_flag, retry[t])]
    /\ UNCHANGED <<retry, message, status, ghostVars, consumer_thread>>
    /\ UNCHANGED <<transportVars, stopVars, joinVars>>
    /\ UNCHANGED <<facadeVars, producerVars, configVars>>

\* Mutant of AfterYield: a message received after stop() is dropped.
AfterYield_ChecksStop(stopped) == IF stopped THEN "flush_check" ELSE "callback"

\* a received message goes to the callback; the stop event is not read here
AfterYield(stopped) == "callback"

\* Mutant of AfterTransportError: a transport error is handled as a retry.
AfterTransportError_Retry == [retry |-> TRUE, pc |-> "loop"]

\* except Exception around the loop body: log, retry = False, next iteration
AfterTransportError == [retry |-> FALSE, pc |-> "loop"]

\* const.CORTX_HA_WAIT_TIMEOUT (ha/const.py); by the comment above the receive
\* call it is not 0, which would block for an indefinite time
CORTX_HA_WAIT_TIMEOUT == 2

\* the timeout argument of the polling loop's receive call, for a Consumer
\* constructed with the timeout configured: self.timeout is not read
PollTimeout(configured) == CORTX_HA_WAIT_TIMEOUT

\* Mutant of AfterTimeout: a poll that timed out goes on to the callback.
AfterTimeout_Callback == "callback"

\* if message is None: continue
AfterTimeout == "loop"

\* message = self.consumer.receive(timeout=...); None: continue
Receive(t) ==
    /\ pc[t] = "receive"
    /\ \/ /\ ~TopicEmpty
          /\ message' = [message EXCEPT ![t] = NextMessage]
          /\ delivered' = NextMessage
          /\ lastReceived' = NextMessage
          /\ pc' = [pc EXCEPT ![t] = AfterYield(stop_flag)]
          /\ Observe(Event(t, "main", "recv", NextMessage, "msg"), NewObs("main"))
          /\ UNCHANGED retry
       \/ /\ TopicEmpty
          /\ message' = [message EXCEPT ![t] = None]
          /\ pc' = [pc EXCEPT ![t] = AfterTimeout]
          /\ Observe(Event(t, "main", "recv", None, "none"), obs)
          /\ UNCHANGED <<retry, delivered, lastReceived>>
       \/ /\ retry' = [retry EXCEPT ![t] = AfterTransportError.retry]
          /\ pc' = [pc EXCEPT ![t] = AfterTransportError.pc]
          /\ Observe(Event(t, "main", "recv", None, "err"), obs)
          /\ UNCHANGED <<message, delivered, lastReceived>>
    /\ UNCHANGED <<status, produced, consumer_thread>>
    /\ pollTimeout' = <<PollTimeout(timeout)>>
    /\ UNCHANGED <<ackVars, handling, stopMark>>
    /\ UNCHANGED <<stopVars, joinVars>>
    /\ UNCHANGED <<facadeVars, producerVars, configVars>>

\* Mutant of AfterRaise: a callback exception handled like a transport error.
AfterRaise_NoRetry == [retry |-> FALSE, pc |-> "loop"]

\* except Exception around the callback: log, retry = True, continue
AfterRaise == [retry |-> TRUE, pc |-> "loop"]

\* status = self.callback(message)
Callback(t) ==
    /\ pc[t] = "callback"
    /\ \/ \E r \in Returns :
             /\ status' = [status EXCEPT ![t] = r]
             /\ pc' = [pc EXCEPT ![t] = "dispatch"]
             /\ Observe(Event(t, "main", "call", message[t], r), ObsCall(obs, r))
             /\ UNCHANGED retry
       \/ /\ retry' = [retry EXCEPT ![t] = AfterRaise.retry]
          /\ pc' = [pc EXCEPT ![t] = AfterRaise.pc]
          /\ Observe(Event(t, "main", "call", message[t], "raise"),
                     ObsCall(obs, "raise"))
          /\ UNCHANGED status
    /\ handling' = [handling EXCEPT ![t] = message[t]]
    /\ UNCHANGED <<message, consumer_thread>>
    /\ UNCHANGED <<ackVars, stopMark, pollTimeout>>
    /\ UNCHANGED <<transportVars, stopVars, joinVars>>
    /\ UNCHANGED <<facadeVars, producerVars, configVars>>

\* Mutants of the status chain: SUCCESS is not acknowledged; FAILED_STOP
\* does not break.
AckStatus_OnlySuccessStop(st) == st = SUCCESS_STOP
\* Mutant of AckStatus: FAILED is acknowledged too.
AckStatus_AlsoFailed(st) == st \in {SUCCESS, SUCCESS_STOP, FAILED}
BreakStatus_OnlySuccessStop(st) == st = SUCCESS_STOP

\* the if / elif chain on status: which statuses call self.consumer.ack(),
\* which reach a break, and which fall to the else (retry = True, continue)
AckStatus(st) == st = SUCCESS \/ st = SUCCESS_STOP
BreakStatus(st) == st = FAILED_STOP \/ st = SUCCESS_STOP

Dispatch(t) ==
    /\ pc[t] = "dispatch"
    /\ IF AckStatus(status[t])
       THEN \/ /\ TransportAck(t, "main", TRUE)
               /\ IF BreakStatus(status[t])
                  THEN /\ pc' = [pc EXCEPT ![t] = "flush_check"]
                       /\ UNCHANGED retry
                  ELSE /\ pc' = [pc EXCEPT ![t] = "loop"]
                       /\ retry' = [retry EXCEPT ![t] = FALSE]
            \/ /\ TransportAck(t, "main", FALSE)
               /\ retry' = [retry EXCEPT ![t] = AfterTransportError.retry]
               /\ pc' = [pc EXCEPT ![t] = AfterTransportError.pc]
       ELSE /\ IF BreakStatus(status[t])
               THEN /\ pc' = [pc EXCEPT ![t] = "flush_check"]
                    /\ UNCHANGED retry
               ELSE /\ pc' = [pc EXCEPT ![t] = "loop"]
                    /\ retry' = [retry EXCEPT ![t] = TRUE]
            /\ UNCHANGED <<obs, lastEv, ackVars>>
    /\ UNCHANGED <<message, status, consumer_thread, handling, stopMark, pollTimeout>>
    /\ UNCHANGED <<transportVars, stopVars, joinVars>>
    /\ UNCHANGED <<facadeVars, producerVars, configVars>>

(***************************************************************************)
(* MessageBusConsumer.run: the flush loop after the polling loop           *)
(***************************************************************************)
\* if self.flush_on_exit:
FlushTarget(flush) == IF flush THEN "drain_receive" ELSE "done"

FlushCheck(t) ==
    /\ pc[t] = "flush_check"
    /\ pc' = [pc EXCEPT ![t] = FlushTarget(flush_on_exit)]
    /\ UNCHANGED <<retry, message, status, ghostVars, consumer_thread>>
    /\ UNCHANGED <<transportVars, stopVars, joinVars>>
    /\ UNCHANGED <<facadeVars, producerVars, configVars>>

\* the timeout argument of the flush loop's receive call
DrainTimeout == 1

\* Mutant of AfterDrainYield: a flushed message is dropped without an ack.
AfterDrainYield_NoAck == "drain_receive"

\* a flushed message is logged and acknowledged, the callback is not called
AfterDrainYield == "drain_ack"

\* Mutant of AfterDrainError: the flush loop logs the error and polls again.
AfterDrainError_Suppressed == "drain_receive"

\* receive() or ack() raising in the flush loop, which has no try / except:
\* the exception leaves run() and ends the thread
AfterDrainError == "crashed"

\* message = self.consumer.receive(timeout=1); None: break; there is no
\* except in this loop: a transport error ends the thread
DrainReceive(t) ==
    /\ pc[t] = "drain_receive"
    /\ \/ /\ ~TopicEmpty
          /\ message' = [message EXCEPT ![t] = NextMessage]
          /\ delivered' = NextMessage
          /\ lastReceived' = NextMessage
          /\ pc' = [pc EXCEPT ![t] = AfterDrainYield]
          /\ Observe(Event(t, "drain", "recv", NextMessage, "msg"), NewObs("drain"))
       \/ /\ TopicEmpty
          /\ message' = [message EXCEPT ![t] = None]
          /\ pc' = [pc EXCEPT ![t] = "done"]
          /\ Observe(Event(t, "drain", "recv", None, "none"), obs)
          /\ UNCHANGED <<delivered, lastReceived>>
       \/ /\ pc' = [pc EXCEPT ![t] = AfterDrainError]
          /\ Observe(Event(t, "drain", "recv", None, "err"), obs)
          /\ UNCHANGED <<message, delivered, lastReceived>>
    /\ UNCHANGED <<retry, status, produced, consumer_thread>>
    /\ pollTimeout' = <<DrainTimeout>>
    /\ UNCHANGED <<ackVars, handling, stopMark>>
    /\ UNCHANGED <<stopVars, joinVars>>
    /\ UNCHANGED <<facadeVars, producerVars, configVars>>

\* self.consumer.ack() of the flushed message
DrainAck(t) ==
    /\ pc[t] = "drain_ack"
    /\ \/ /\ pc' = [pc EXCEPT ![t] = "drain_receive"]
          /\ TransportAck(t, "drain", TRUE)
       \/ /\ pc' = [pc EXCEPT ![t] = AfterDrainError]
          /\ TransportAck(t, "drain", FALSE)
    /\ UNCHANGED <<retry, message, status, consumer_thread, handling, stopMark,
                    pollTimeout>>
    /\ UNCHANGED <<transportVars, stopVars, joinVars>>
    /\ UNCHANGED <<facadeVars, producerVars, configVars>>

WorkerStep(t) ==
    \/ LoopCheck(t)
    \/ Receive(t)
    \/ Callback(t)
    \/ Dispatch(t)
    \/ FlushCheck(t)
    \/ DrainReceive(t)
    \/ DrainAck(t)

(***************************************************************************)
(* MessageBusConsumer.stop: two writes, in this order                      *)
(***************************************************************************)
\* self.flush_on_exit = flush
\* Mutant of StopOrder: the event is set first, the flush flag written after.
StopOrder_SetFirst == <<"set", "flush">>

\* the two writes of stop(), in the order of its statements
StopOrder == <<"flush", "set">>

StopWrite(step, flush) ==
    IF step = "flush"
    THEN flush_on_exit' = flush /\ UNCHANGED stop_flag
    ELSE stop_flag' = TRUE /\ UNCHANGED flush_on_exit

StopWriteFlush(flush) ==
    /\ stopPc = "idle"
    /\ stopCalls < MaxStops
    /\ StopWrite(StopOrder[1], flush)
    /\ stopArg' = flush
    /\ stopCalls' = stopCalls + 1
    /\ stopPc' = "set"
    /\ UNCHANGED <<ghostVars, consumer_thread>>
    /\ UNCHANGED <<workerVars, transportVars, joinVars>>
    /\ UNCHANGED <<facadeVars, producerVars, configVars>>

\* self._stop.set()
StopSet ==
    /\ stopPc = "set"
    /\ StopWrite(StopOrder[2], stopArg)
    /\ stopPc' = "idle"
    /\ stopMark' = IF stopMark = -1 /\ stopArg THEN delivered ELSE stopMark
    /\ UNCHANGED <<stopArg, stopCalls, consumer_thread>>
    /\ UNCHANGED <<obs, lastEv, ackVars, handling, pollTimeout>>
    /\ UNCHANGED <<workerVars, transportVars, joinVars>>
    /\ UNCHANGED <<facadeVars, producerVars, configVars>>

(***************************************************************************)
(* MessageBusConsumer.join                                                 *)
(***************************************************************************)
\* if self.consumer_thread is not None: self.consumer_thread.join()
JoinCall ==
    /\ joinPc = "idle"
    /\ joinTarget' = consumer_thread
    /\ joinPc' = IF consumer_thread = None THEN "returned" ELSE "waiting"
    /\ UNCHANGED <<ghostVars, consumer_thread>>
    /\ UNCHANGED <<workerVars, transportVars, stopVars>>
    /\ UNCHANGED <<facadeVars, producerVars, configVars>>

\* Thread.join() returns once the thread has ended
JoinReturn ==
    /\ joinPc = "waiting"
    /\ Terminated(joinTarget)
    /\ joinPc' = "returned"
    /\ UNCHANGED <<joinTarget, ghostVars, consumer_thread>>
    /\ UNCHANGED <<workerVars, transportVars, stopVars>>
    /\ UNCHANGED <<facadeVars, producerVars, configVars>>

(***************************************************************************)
(* MessageBus.register, and the transport's admin interface as it uses it. *)
(***************************************************************************)
Callers == 1..2
MessageTypes == {"alerts", "health"}

\* str(e) of what the admin interface raises: for a type that exists
\* already, a text holding the transport's marker; anything else otherwise.
ExistsErrors == {"TOPIC_ALREADY_EXISTS",
                 "KafkaError{code=TOPIC_ALREADY_EXISTS,val=36}"}
OtherErrors == {"KafkaError{code=_TRANSPORT,val=-195}", "TOPIC_AUTHORIZATION_FAILED"}

FacadeInit ==
    /\ registered = {}
    /\ created = [ty \in MessageTypes |-> 0]
    /\ rpc = [c \in Callers |-> "idle"]
    /\ rtype = [c \in Callers |-> "alerts"]
    /\ rseen = [c \in Callers |-> "unset"]
    /\ rerr = [c \in Callers |-> ""]
    /\ rcalls = [c \in Callers |-> 0]
    /\ gpCall = [c \in Callers |-> FALSE]
    /\ gpResult = [c \in Callers |-> "none"]
    /\ transportInits = 0
    /\ consumersMade = 0
    /\ dpc = [c \in Callers |-> "idle"]
    /\ dtype = [c \in Callers |-> "alerts"]
    /\ derr = [c \in Callers |-> ""]
    /\ dcalls = [c \in Callers |-> 0]

\* Python's  needle in hay  on strings
Contains(hay, needle) ==
    \E i \in 1..(Len(hay) - Len(needle) + 1) :
        SubSeq(hay, i, i + Len(needle) - 1) = needle

\* Mutant of Except: the error text is compared, not searched.
Except_ExactText(err) ==
    IF err = "TOPIC_ALREADY_EXISTS" THEN "returned" ELSE "raised"

\* except Exception as e: if "TOPIC_ALREADY_EXISTS" not in str(e): raise(e)
Except(err) ==
    IF ~Contains(err, "TOPIC_ALREADY_EXISTS") THEN "raised" ELSE "returned"

\* register(message_type, partitions) is entered: admin = MessageBusAdmin(...)
EnterRegister(c, ty) ==
    /\ rpc[c] = "idle"
    /\ rcalls[c] < MaxRegCalls
    /\ rcalls' = [rcalls EXCEPT ![c] = rcalls[c] + 1]
    /\ rpc' = [rpc EXCEPT ![c] = "list"]
    /\ rtype' = [rtype EXCEPT ![c] = ty]
    /\ rseen' = [rseen EXCEPT ![c] = "unset"]
    /\ rerr' = [rerr EXCEPT ![c] = ""]
    /\ gpResult' = [gpResult EXCEPT ![c] = "none"]
    /\ UNCHANGED <<registered, created, transportInits, consumersMade>>
    /\ UNCHANGED deregVars
    /\ UNCHANGED <<consumerVars, producerVars>>

\* a caller calls register(message_type, partitions) itself
RegisterCall(c, ty) ==
    /\ EnterRegister(c, ty)
    /\ UNCHANGED gpCall

\* if message_type not in admin.list_message_types():
RegisterList(c) ==
    /\ rpc[c] = "list"
    /\ \/ /\ rseen' = [rseen EXCEPT ![c] = IF rtype[c] \in registered
                                            THEN "present" ELSE "absent"]
          /\ rpc' = [rpc EXCEPT ![c] = IF rtype[c] \in registered
                                        THEN "returned" ELSE "register"]
          /\ UNCHANGED rerr
       \/ \E e \in OtherErrors :
             /\ rerr' = [rerr EXCEPT ![c] = e]
             /\ rpc' = [rpc EXCEPT ![c] = Except(e)]
             /\ UNCHANGED rseen
    /\ UNCHANGED <<registered, created, rtype, rcalls, factoryVars>>
    /\ UNCHANGED deregVars
    /\ UNCHANGED <<consumerVars, producerVars>>

\* admin.register_message_type(message_types=[message_type], ...)
RegisterCreate(c) ==
    /\ rpc[c] = "register"
    /\ \/ /\ rtype[c] \notin registered
          /\ registered' = registered \cup {rtype[c]}
          /\ created' = [created EXCEPT ![rtype[c]] = created[rtype[c]] + 1]
          /\ rpc' = [rpc EXCEPT ![c] = "returned"]
          /\ UNCHANGED rerr
       \/ /\ rtype[c] \in registered
          /\ \E e \in ExistsErrors :
                /\ rerr' = [rerr EXCEPT ![c] = e]
                /\ rpc' = [rpc EXCEPT ![c] = Except(e)]
          /\ UNCHANGED <<registered, created>>
       \/ \E e \in OtherErrors :
             /\ rerr' = [rerr EXCEPT ![c] = e]
             /\ rpc' = [rpc EXCEPT ![c] = Except(e)]
             /\ UNCHANGED <<registered, created>>
    /\ UNCHANGED <<rtype, rseen, rcalls, factoryVars>>
    /\ UNCHANGED deregVars
    /\ UNCHANGED <<consumerVars, producerVars>>

\* register() has returned or raised; the caller goes on
RegisterDone(c) ==
    /\ ~gpCall[c]
    /\ rpc[c] \in {"returned", "raised"}
    /\ rpc' = [rpc EXCEPT ![c] = "idle"]
    /\ UNCHANGED <<registered, created, rtype, rseen, rerr, rcalls, factoryVars>>
    /\ UNCHANGED deregVars
    /\ UNCHANGED <<consumerVars, producerVars>>

(***************************************************************************)
(* MessageBus.init, get_consumer, get_producer                             *)
(***************************************************************************)
\* init(): utils_message_bus.init(message_server_endpoints)
BusInit ==
    /\ transportInits < MaxInits
    /\ transportInits' = transportInits + 1
    /\ UNCHANGED <<registerVars, gpCall, gpResult, consumersMade>>
    /\ UNCHANGED deregVars
    /\ UNCHANGED <<consumerVars, producerVars>>

\* get_consumer(...): return MessageBusConsumer(...)
GetConsumer ==
    /\ consumersMade < MaxConsumers
    /\ consumersMade' = consumersMade + 1
    /\ UNCHANGED <<registerVars, gpCall, gpResult, transportInits>>
    /\ UNCHANGED deregVars
    /\ UNCHANGED <<consumerVars, producerVars>>

\* get_producer(producer_id, message_type, partitions): its first statement
\* is MessageBus.register(message_type, partitions)
GetProducerCall(c, ty) ==
    /\ EnterRegister(c, ty)
    /\ gpCall' = [gpCall EXCEPT ![c] = TRUE]

\* Mutant of GetProducerResult: a Producer is returned whatever register did.
GetProducerResult_IgnoresRaise(outcome) == "producer"

\* register() returned: return MessageBusProducer(...); register() raised:
\* the exception leaves get_producer
GetProducerResult(outcome) ==
    IF outcome = "returned" THEN "producer" ELSE "raised"

GetProducerDone(c) ==
    /\ gpCall[c]
    /\ rpc[c] \in {"returned", "raised"}
    /\ gpResult' = [gpResult EXCEPT ![c] = GetProducerResult(rpc[c])]
    /\ gpCall' = [gpCall EXCEPT ![c] = FALSE]
    /\ rpc' = [rpc EXCEPT ![c] = "idle"]
    /\ UNCHANGED <<registered, created, rtype, rseen, rerr, rcalls>>
    /\ UNCHANGED <<transportInits, consumersMade>>
    /\ UNCHANGED deregVars
    /\ UNCHANGED <<consumerVars, producerVars>>

(***************************************************************************)
(* MessageBusProducer.publish.  A Python value is a record of its type     *)
(* (kind) and content; a dict is the sequence of its (key, value) pairs in *)
(* insertion order.                                                        *)
(***************************************************************************)
PyStr(x) == [kind |-> "str", val |-> x]
PyInt(n) == [kind |-> "int", val |-> n]
PyBool(b) == [kind |-> "bool", val |-> b]
PyList(xs) == [kind |-> "list", val |-> xs]
PyDict(kvs) == [kind |-> "dict", val |-> kvs]

SeqsUpTo(S, n) == UNION {[1..k -> S] : k \in 0..n}

Scalars == {PyStr("x"), PyStr("y"), PyInt(42)}
Dicts == {PyDict(<<>>),
          PyDict(<< <<"a", PyInt(1)>> >>),
          PyDict(<< <<"a", PyInt(1)>>, <<"b", PyStr("x")>> >>),
          PyDict(<< <<"b", PyStr("x")>>, <<"a", PyInt(1)>> >>)}
Lists == {PyList(xs) : xs \in SeqsUpTo(Scalars, MaxListLen)}
Values == Scalars \cup {PyBool(TRUE)} \cup Dicts \cup Lists

\* json.dumps with its default separators
JsonScalar(v) ==
    CASE v.kind = "str" -> "\"" \o v.val \o "\""
      [] v.kind = "int" -> ToString(v.val)
      [] v.kind = "bool" -> IF v.val THEN "true" ELSE "false"

RECURSIVE JsonItems(_)
JsonItems(kvs) ==
    IF kvs = <<>> THEN ""
    ELSE "\"" \o kvs[1][1] \o "\": " \o JsonScalar(kvs[1][2])
         \o (IF Len(kvs) = 1 THEN "" ELSE ", " \o JsonItems(Tail(kvs)))

JsonDumps(v) == "{" \o JsonItems(v.val) \o "}"

ProducerInit ==
    /\ pubPc = "idle"
    /\ pubArg = PyStr("x")
    /\ pubResult = "none"
    /\ pubCalls = 0
    /\ sendsBefore = 0
    /\ sent = <<>>

\* a caller enters publish(message)
PublishCall(v) ==
    /\ pubPc = "idle"
    /\ pubCalls < MaxPublish
    /\ pubCalls' = pubCalls + 1
    /\ pubArg' = v
    /\ pubPc' = "called"
    /\ sendsBefore' = Len(sent)
    /\ UNCHANGED <<pubResult, sent>>
    /\ UNCHANGED <<consumerVars, facadeVars>>

\* the isinstance chain: the types publish() sends, the others raise
Sendable(v) == v.kind \in {"dict", "str", "list"}

\* Mutant of Batch: a dict is sent as it is, not serialized.
Batch_DictNotDumped(v) ==
    CASE v.kind = "dict" -> <<v>>
      [] v.kind = "str" -> <<v>>
      [] v.kind = "list" -> v.val

\* the list handed to self.producer.send
Batch(v) ==
    CASE v.kind = "dict" -> <<PyStr(JsonDumps(v))>>
      [] v.kind = "str" -> <<v>>
      [] v.kind = "list" -> v.val

Publish ==
    /\ pubPc = "called"
    /\ IF Sendable(pubArg)
       THEN /\ sent' = Append(sent, Batch(pubArg))
            /\ pubResult' = "sent"
       ELSE /\ pubResult' = "raised"
            /\ UNCHANGED sent
    /\ pubPc' = "idle"
    /\ UNCHANGED <<pubArg, pubCalls, sendsBefore>>
    /\ UNCHANGED <<consumerVars, facadeVars>>

(***************************************************************************)
(* One Consumer, started once, with its producers and its callers.         *)
(***************************************************************************)
Init ==
    /\ ConsumerInit
    /\ FacadeInit
    /\ ProducerInit

Next ==
    \/ Inject
    \/ \E t \in Threads : SingleStart(t)
    \/ \E t \in Threads : LoopCheck(t)
    \/ \E t \in Threads : Receive(t)
    \/ \E t \in Threads : Callback(t)
    \/ \E t \in Threads : Dispatch(t)
    \/ \E t \in Threads : FlushCheck(t)
    \/ \E t \in Threads : DrainReceive(t)
    \/ \E t \in Threads : DrainAck(t)
    \/ \E f \in BOOLEAN : StopWriteFlush(f)
    \/ StopSet
    \/ JoinCall
    \/ JoinReturn

Spec == Init /\ [][Next]_vars

\* Concurrent callers of MessageBus.register.
NextRegister ==
    \/ \E c \in Callers : \E ty \in MessageTypes : RegisterCall(c, ty)
    \/ \E c \in Callers : RegisterList(c)
    \/ \E c \in Callers : RegisterCreate(c)
    \/ \E c \in Callers : RegisterDone(c)

SpecRegister == Init /\ [][NextRegister]_vars

(***************************************************************************)
(* MessageBus.deregister                                                   *)
(***************************************************************************)
\* str(e) of what the admin interface raises when the type to remove does
\* not exist (it may also return without removing anything)
AbsentErrors == {"KafkaError{code=UNKNOWN_TOPIC_OR_PART,val=3}"}

\* a caller enters deregister(message_type): admin = MessageBusAdmin(...)
DeregisterCall(c, ty) ==
    /\ dpc[c] = "idle"
    /\ rpc[c] = "idle"
    /\ dcalls[c] < MaxDeregCalls
    /\ dcalls' = [dcalls EXCEPT ![c] = dcalls[c] + 1]
    /\ dpc' = [dpc EXCEPT ![c] = "list"]
    /\ dtype' = [dtype EXCEPT ![c] = ty]
    /\ derr' = [derr EXCEPT ![c] = ""]
    /\ UNCHANGED <<registerVars, factoryVars>>
    /\ UNCHANGED <<consumerVars, producerVars>>

\* what deregister() does with an exception: there is no try, it leaves
\* deregister() whatever its text
DeregisterExcept(err) == "raised"

\* if message_type in admin.list_message_types():
DeregisterList(c) ==
    /\ dpc[c] = "list"
    /\ \/ /\ dpc' = [dpc EXCEPT ![c] = IF dtype[c] \in registered
                                        THEN "remove" ELSE "returned"]
          /\ UNCHANGED derr
       \/ \E e \in OtherErrors :
             /\ derr' = [derr EXCEPT ![c] = e]
             /\ dpc' = [dpc EXCEPT ![c] = DeregisterExcept(e)]
    /\ UNCHANGED <<dtype, dcalls, registerVars, factoryVars>>
    /\ UNCHANGED <<consumerVars, producerVars>>

\* admin.deregister_message_type(message_types=[message_type])
DeregisterRemove(c) ==
    /\ dpc[c] = "remove"
    /\ \/ /\ dtype[c] \in registered
          /\ registered' = registered \ {dtype[c]}
          /\ dpc' = [dpc EXCEPT ![c] = "returned"]
          /\ UNCHANGED derr
       \/ /\ dtype[c] \notin registered
          /\ \/ \E e \in AbsentErrors :
                   /\ derr' = [derr EXCEPT ![c] = e]
                   /\ dpc' = [dpc EXCEPT ![c] = DeregisterExcept(e)]
             \/ /\ dpc' = [dpc EXCEPT ![c] = "returned"]
                /\ UNCHANGED derr
          /\ UNCHANGED registered
       \/ \E e \in OtherErrors :
             /\ derr' = [derr EXCEPT ![c] = e]
             /\ dpc' = [dpc EXCEPT ![c] = DeregisterExcept(e)]
             /\ UNCHANGED registered
    /\ UNCHANGED <<created, rpc, rtype, rseen, rerr, rcalls>>
    /\ UNCHANGED <<dtype, dcalls, factoryVars>>
    /\ UNCHANGED <<consumerVars, producerVars>>

\* deregister() has returned or raised; the caller goes on
DeregisterDone(c) ==
    /\ dpc[c] \in {"returned", "raised"}
    /\ dpc' = [dpc EXCEPT ![c] = "idle"]
    /\ UNCHANGED <<dtype, derr, dcalls, registerVars, factoryVars>>
    /\ UNCHANGED <<consumerVars, producerVars>>

\* a caller that is not inside deregister() calls register()
RegisterCallIdle(c, ty) ==
    /\ dpc[c] = "idle"
    /\ RegisterCall(c, ty)

\* Concurrent callers of MessageBus.register and MessageBus.deregister.
NextDeregister ==
    \/ \E c \in Callers : \E ty \in MessageTypes : RegisterCallIdle(c, ty)
    \/ \E c \in Callers : RegisterList(c)
    \/ \E c \in Callers : RegisterCreate(c)
    \/ \E c \in Callers : RegisterDone(c)
    \/ \E c \in Callers : \E ty \in MessageTypes : DeregisterCall(c, ty)
    \/ \E c \in Callers : DeregisterList(c)
    \/ \E c \in Callers : DeregisterRemove(c)
    \/ \E c \in Callers : DeregisterDone(c)

SpecDeregister == Init /\ [][NextDeregister]_vars

\* Callers of the facade's init, get_consumer, get_producer and register.
NextFacade ==
    \/ BusInit
    \/ GetConsumer
    \/ \E c \in Callers : \E ty \in MessageTypes : GetProducerCall(c, ty)
    \/ \E c \in Callers : \E ty \in MessageTypes : RegisterCall(c, ty)
    \/ \E c \in Callers : RegisterList(c)
    \/ \E c \in Callers : RegisterCreate(c)
    \/ \E c \in Callers : RegisterDone(c)
    \/ \E c \in Callers : GetProducerDone(c)

SpecFacade == Init /\ [][NextFacade]_vars

\* A caller of MessageBusProducer.publish.
NextPublish ==
    \/ \E v \in Values : PublishCall(v)
    \/ Publish

SpecPublish == Init /\ [][NextPublish]_vars

\* The same system with the scheduling the threads get: a started worker
\* thread keeps running (receive returns within its timeout and the callback
\* returns), a stop() call that has begun finishes, and Thread.join() returns
\* once the thread has ended.
FairSpec ==
    /\ Init
    /\ [][Next]_vars
    /\ \A t \in Threads : WF_vars(WorkerStep(t))
    /\ WF_vars(StopSet)
    /\ WF_vars(JoinReturn)

\* The same system for a Consumer constructed with any timeout.
InitConfigured ==
    /\ \E tmo \in Timeouts : ConsumerNew(tmo)
    /\ FacadeInit
    /\ ProducerInit

SpecConfigured == InitConfigured /\ [][Next]_vars

\* start() called on a Consumer whose stop() has set the stop event
LateStart(t) ==
    /\ stop_flag
    /\ Start(t)

\* One Consumer, its producers, and callers that call start() once at any
\* time and again after a stop(); nobody joins.
NextStopped ==
    \/ Inject
    \/ \E t \in Threads : SingleStart(t)
    \/ \E t \in Threads : LateStart(t)
    \/ \E t \in Threads : LoopCheck(t)
    \/ \E t \in Threads : Receive(t)
    \/ \E t \in Threads : Callback(t)
    \/ \E t \in Threads : Dispatch(t)
    \/ \E t \in Threads : FlushCheck(t)
    \/ \E t \in Threads : DrainReceive(t)
    \/ \E t \in Threads : DrainAck(t)
    \/ \E f \in BOOLEAN : StopWriteFlush(f)
    \/ StopSet

SpecStopped == Init /\ [][NextStopped]_vars

FairStopped ==
    /\ SpecStopped
    /\ \A t \in Threads : WF_vars(WorkerStep(t))
    /\ WF_vars(StopSet)

\* One Consumer whose start() is called as often as the callers like: each
\* call makes a new MessageConsumer and a new thread running run().  The
\* topic is one no producer sends to, so every poll times out or fails.
NextRestart ==
    \/ \E t \in Threads : Start(t)
    \/ \E t \in Threads : LoopCheck(t)
    \/ \E t \in Threads : Receive(t)
    \/ \E t \in Threads : FlushCheck(t)
    \/ \E t \in Threads : DrainReceive(t)
    \/ \E f \in BOOLEAN : StopWriteFlush(f)
    \/ StopSet
    \/ JoinCall
    \/ JoinReturn

SpecRestart == Init /\ [][NextRestart]_vars

(***************************************************************************)
(* Properties                                                              *)
(***************************************************************************)
Started(t) == pc[t] # "unstarted"

\* positions of run() after the polling loop
PostLoop == {"flush_check", "drain_receive", "drain_ack", "done", "crashed"}

\* returns that fall to the final else of run(): FAILED, no value, any other
RetryReturns == Returns \ {SUCCESS, FAILED_STOP, SUCCESS_STOP}

\* C1: each time the callback returns SUCCESS for a received message, the
\* worker issues exactly one ack() for that message (none before the return,
\* one right after it, which acknowledges the message when it returns), and
\* from then on is headed for a poll: whatever it does next to the transport
\* is a receive, and it does not hand the same message to the callback again.
C1_SuccessAckOnceThenPoll ==
    \A t \in Threads :
        (Started(t) /\ obs.last = SUCCESS) =>
            IF pc[t] = "dispatch"
            THEN /\ lastEv = Event(t, "main", "call", lastReceived, SUCCESS)
                 /\ ackCalls[lastReceived] = 0
            ELSE /\ ackCalls[lastReceived] = 1
                 /\ pc[t] \in {"loop", "receive", "flush_check", "drain_receive",
                               "done", "crashed"}
                 /\ pc[t] = "loop" => ~retry[t]
                 /\ \/ lastEv \in {Event(t, "main", "ack", lastReceived, "ok"),
                                   Event(t, "main", "ack", lastReceived, "err")}
                    \/ /\ lastEv.op = "recv"
                       /\ lastEv.res \in {"none", "err"}

\* C1 witness: the second message was handed to the callback once, SUCCESS
\* came back, one ack was issued, and the worker has polled again.
C1_Witness ==
    /\ obs.last = SUCCESS
    /\ obs.calls = 1
    /\ lastReceived = 2
    /\ ackCalls[2] = 1
    /\ lastEv = Event(1, "main", "recv", None, "none")

\* C2: the callback is only ever handed the message received last: a first
\* time right after the receive that yielded it, and again only right after
\* an invocation on it that asked for a retry, with no receive and no ack in
\* between; every message the polling loop receives goes to the callback
\* next, so the callback sees the messages in the order they were yielded.
\* While the latest return for a message is FAILED, no value or an unknown
\* value, no ack has been issued for it.
C2_RetrySameMessage ==
    \A t \in Threads :
        Started(t) =>
            /\ (lastEv.op = "recv" /\ lastEv.res = "msg" /\ lastEv.phase = "main"
                /\ lastEv.th = t) => pc[t] = "callback"
            /\ pc[t] = "callback" =>
                  /\ message[t] \in Msgs
                  /\ message[t] = lastReceived
                  /\ IF obs.calls = 0
                     THEN lastEv = Event(t, "main", "recv", message[t], "msg")
                     ELSE /\ retry[t]
                          /\ obs.last \in RetryReturns \cup {"raise"}
                          /\ lastEv = Event(t, "main", "call", message[t], obs.last)
            /\ obs.last \in RetryReturns =>
                  /\ ackCalls[lastReceived] = 0
                  /\ handling[t] = lastReceived
                  /\ \/ /\ pc[t] = "dispatch"
                        /\ lastEv = Event(t, "main", "call", lastReceived, obs.last)
                     \/ /\ pc[t] \in {"loop", "callback"}
                        /\ retry[t]
                        /\ message[t] = lastReceived
                        /\ lastEv = Event(t, "main", "call", lastReceived, obs.last)
                     \/ pc[t] \in {"flush_check", "drain_receive", "done", "crashed"}

\* C2 witness: the second message was handed to the callback twice, the
\* second time no value came back, and it is about to be handed over again.
C2_Witness ==
    /\ pc[1] = "callback"
    /\ message[1] = 2
    /\ obs.calls = 2
    /\ ~obs.firstRaised
    /\ obs.last = "None"
    /\ ackCalls[2] = 0

\* C3, safety: once the callback has returned FAILED_STOP the worker is past
\* its polling loop for good, so the callback is not invoked again, and no
\* ack is issued for the message it returned FAILED_STOP for.
C3_FailedStopInv ==
    \A t \in Threads :
        (Started(t) /\ status[t] = FAILED_STOP) =>
            /\ pc[t] \in {"dispatch"} \cup PostLoop
            /\ handling[t] \in Msgs
            /\ ackCalls[handling[t]] = 0
            /\ lastReceived = handling[t] => (obs.last = FAILED_STOP /\ obs.phase = "main")

\* the worker thread start() created has ended (STOPPED)
WorkerEnded == consumer_thread # None /\ Terminated(consumer_thread)

C4_SuccessStopAckThenStops ==
    \A t \in Threads :
        (Started(t) /\ status[t] = SUCCESS_STOP /\ pc[t] # "dispatch") =>
            /\ handling[t] \in Msgs
            /\ ackCalls[handling[t]] = 1
            /\ pc[t] \in PostLoop

C6_StopOnlyBetweenIterations ==
    [][\A t \in Threads :
         /\ (stop_flag' # stop_flag \/ flush_on_exit' # flush_on_exit) =>
               UNCHANGED <<pc, retry, message, status>>
         /\ (pc[t] \notin PostLoop /\ pc'[t] \in PostLoop) =>
               \/ pc[t] = "loop" /\ stop_flag
               \/ pc[t] = "dispatch" /\ status[t] \in {FAILED_STOP, SUCCESS_STOP}
         /\ (pc[t] = "receive" /\ delivered' # delivered) =>
               /\ pc'[t] = "callback"
               /\ message'[t] = delivered'
         /\ (pc[t] = "callback" /\ pc'[t] # pc[t]) =>
               /\ handling'[t] = message[t]
               /\ pc'[t] \in {"dispatch", "loop"}
         /\ (pc[t] = "dispatch" /\ pc'[t] # pc[t]) =>
               (ackCalls' # ackCalls <=> status[t] \in {SUCCESS, SUCCESS_STOP})
      ]_vars

\* C6 witness: a message yielded after stop(flush=True) had returned (so to
\* a receive that was in flight) was handed to the callback and acknowledged,
\* and the worker then ended.
C6_Witness ==
    /\ stop_flag
    /\ stopMark >= 0
    /\ handling[1] > stopMark
    /\ ackCalls[handling[1]] = 1
    /\ status[1] = SUCCESS
    /\ pc[1] = "done"

\* C7 as claimed (what it implies for the messages yielded after
\* stop(flush=True) returned): none of them is handed to the callback, and
\* when the worker has ended an ack has been issued for each.
C7_FlushDiscardsAllAfterStop ==
    \A t \in Threads :
        (Started(t) /\ stopMark >= 0) =>
            /\ handling[t] <= stopMark
            /\ Terminated(t) =>
                  \A m \in Msgs : (stopMark < m /\ m <= delivered) => ackCalls[m] = 1

\* C7 amended, state part: a message yielded but not handed to the callback
\* is either the one the polling loop just received (the callback is next)
\* or a message of the flush loop; a message of the flush loop is never
\* handed to the callback and gets exactly one ack, issued right after its
\* receive.
C7_DrainInv ==
    \A t \in Threads :
        Started(t) =>
            /\ obs.phase = "drain" => (obs.calls = 0 /\ handling[t] < lastReceived)
            /\ \A m \in Msgs :
                  (handling[t] < m /\ m <= delivered) =>
                     \/ /\ pc[t] = "callback"
                        /\ m = lastReceived
                        /\ obs.phase = "main"
                     \/ /\ pc[t] = "drain_ack"
                        /\ m = lastReceived
                        /\ ackCalls[m] = 0
                        /\ lastEv = Event(t, "drain", "recv", m, "msg")
                     \/ /\ pc[t] \in {"drain_receive", "drain_ack", "done", "crashed"}
                        /\ pc[t] = "drain_ack" => m < lastReceived
                        /\ ackCalls[m] = 1

\* C7 amended: the above, and the flush loop ends normally only on a poll
\* that found the topic empty.
C7_DrainAcksEveryMessage ==
    /\ []C7_DrainInv
    /\ [][\A t \in Threads :
            (pc[t] = "drain_receive" /\ pc'[t] = "done") => TopicEmpty]_vars

\* C7 witness: stop(flush=True) returned before any message was yielded,
\* three messages were then flushed, each acknowledged, none handed to the
\* callback, and the worker ended.
C7_Witness ==
    /\ stopMark = 0
    /\ delivered = 3
    /\ handling[1] = None
    /\ ackCalls[1] = 1 /\ ackCalls[2] = 1 /\ ackCalls[3] = 1
    /\ pc[1] = "done"

\* C8: under the threads' scheduling, once the stop event is set the
\* started worker ends, and a join() that waits returns, whatever the
\* callback answers.
C8_StopTerminates ==
    /\ (stop_flag /\ consumer_thread # None) ~> WorkerEnded
    /\ (stop_flag /\ joinPc = "waiting") ~> (joinPc = "returned")

\* C8 witness: the callback asked for a retry three times or more, stop()
\* was called, the worker ended and the join() that waited for it returned.
C8_Witness ==
    /\ stop_flag
    /\ obs.last = FAILED
    /\ obs.calls = 3
    /\ pc[1] = "done"
    /\ joinTarget = 1
    /\ joinPc = "returned"

\* C9: register() never raises because the type exists.  When the listing
\* shows the type, no registration is attempted (register() returns with no
\* exception caught).  An exception whose text holds TOPIC_ALREADY_EXISTS is
\* swallowed and register() returns; any other exception is raised to the
\* caller.  After a register() that returned, the type exists and was
\* created once; no type is ever created twice.
C9_RegisterToleratesExisting ==
    /\ \A ty \in MessageTypes : created[ty] <= 1
    /\ \A c \in Callers :
          /\ rseen[c] = "present" => (rpc[c] \in {"returned", "idle"} /\ rerr[c] = "")
          /\ rpc[c] \in {"returned", "raised"} =>
                /\ rerr[c] \in ExistsErrors => rpc[c] = "returned"
                /\ rerr[c] \in OtherErrors => rpc[c] = "raised"
                /\ rpc[c] = "raised" => rerr[c] \in OtherErrors
                /\ rpc[c] = "returned" =>
                      (rtype[c] \in registered /\ created[rtype[c]] = 1)

\* C9 witness: two callers register the same type, both listings showed it
\* absent, the first created it, the second's registration failed on the
\* existing type and register() returned all the same.
C9_Witness ==
    /\ rtype[1] = rtype[2]
    /\ rseen[1] = "absent" /\ rseen[2] = "absent"
    /\ rpc[1] = "returned" /\ rerr[1] = ""
    /\ rpc[2] = "returned"
    /\ rerr[2] = "KafkaError{code=TOPIC_ALREADY_EXISTS,val=36}"
    /\ created[rtype[2]] = 1

\* a dict, a str, or a list whose elements are all str
ValidPayload(v) ==
    \/ v.kind \in {"dict", "str"}
    \/ v.kind = "list" /\ \A i \in 1..Len(v.val) : v.val[i].kind = "str"

\* C10: a publish() of a dict, a str or a list of str ends with exactly one
\* more send() call and no exception.  The batch sent for a dict is one str,
\* its serialization ({"a": 1} gives the text {"a": 1}, keys in the dict's
\* order); for a str it is that one str; for a list it is the list's
\* elements in the list's order.
C10_PublishOneBatch ==
    (pubPc = "idle" /\ pubCalls > 0 /\ ValidPayload(pubArg)) =>
        /\ pubResult = "sent"
        /\ Len(sent) = sendsBefore + 1
        /\ LET b == sent[Len(sent)] IN
              /\ pubArg.kind = "dict" => (Len(b) = 1 /\ b[1].kind = "str")
              /\ pubArg = PyDict(<< <<"a", PyInt(1)>> >>) =>
                    b = <<PyStr("{\"a\": 1}")>>
              /\ pubArg = PyDict(<< <<"b", PyStr("x")>>, <<"a", PyInt(1)>> >>) =>
                    b = <<PyStr("{\"b\": \"x\", \"a\": 1}")>>
              /\ pubArg.kind = "str" => b = <<pubArg>>
              /\ pubArg.kind = "list" =>
                    /\ Len(b) = Len(pubArg.val)
                    /\ \A i \in 1..Len(b) : b[i] = pubArg.val[i]

\* C10 witness: {"a": 1} was published and then ["x", "y"]: two send()
\* calls, the first with the one serialized str, the second with x then y.
C10_Witness ==
    /\ pubPc = "idle"
    /\ pubArg = PyList(<<PyStr("x"), PyStr("y")>>)
    /\ sent = << <<PyStr("{\"a\": 1}")>>, <<PyStr("x"), PyStr("y")>> >>

\* C11 as claimed: a publish() of a value that is not a dict, a str or a list
\* of str ends with an exception and with no send() call made.  The code
\* does not keep this for a list that holds an element that is not a str.
C11_InvalidPayloadRaisesNoSend ==
    (pubPc = "idle" /\ pubCalls > 0 /\ ~ValidPayload(pubArg)) =>
        /\ pubResult = "raised"
        /\ Len(sent) = sendsBefore

\* positions of run() in which a thread is alive: polling, handling, draining
Running(t) == pc[t] \notin {"unstarted", "done", "crashed"}

\* C12 as claimed: whatever start(), stop() and join() calls are made on one
\* Consumer, at most one of its worker threads is running at a time.  The
\* code does not keep this when start() is called twice.
C12_AtMostOneWorkerRunning ==
    Cardinality({t \in Threads : Running(t)}) <= 1

\* C13: a join() called before start() (no thread handle) returns without
\* waiting; a join() called after start() waits for the thread start()
\* created and has returned only in states where that thread has ended: its
\* polling loop and, if flush was requested, its flush loop are over.
C13_JoinWaitsForWorker ==
    /\ (joinPc # "idle" /\ joinTarget = None) =>
          joinPc = "returned"
    /\ joinPc = "waiting" => (joinTarget # None /\ joinTarget = consumer_thread)
    /\ (joinPc = "returned" /\ joinTarget # None) =>
          /\ pc[joinTarget] \in {"done", "crashed"}
          /\ joinTarget = consumer_thread

\* C13 witness: join() was called on a started worker, stop(flush=True)
\* followed, the worker flushed and acknowledged a message, ended on an
\* empty poll, and join() has returned.
C13_Witness ==
    /\ joinPc = "returned"
    /\ joinTarget = 1
    /\ pc[1] = "done"
    /\ flush_on_exit
    /\ ackCalls[1] = 1
    /\ lastEv = Event(1, "drain", "recv", None, "none")

\* C14 as claimed: over the stop() calls made on a Consumer the stop event
\* only goes from unset to set, and the flush flag, once a stop() call has
\* written it, is not changed to another value by a later call.  The code
\* does not keep the second part: every stop() call writes its own argument.
C14_FlagsWriteOnce ==
    [][/\ stop_flag => stop_flag'
       /\ stopCalls > 0 => flush_on_exit' = flush_on_exit]_vars

\* C15 as claimed: however often MessageBus.init() is called in a process,
\* the transport's initialization is performed at most once.  The code
\* performs it on every call.
C15_TransportInitOnce ==
    transportInits <= 1

\* C16, state part: while the last thing a worker did is a receive or an
\* ack of the polling loop that raised, the worker is alive with no retry
\* outstanding: it is at the loop test or at the poll that follows it, or,
\* when the stop event is set, on its way out.  A message for which an ack()
\* was issued (returned or raised) is never handed to the callback again.
C16_TransportErrorInv ==
    \A t \in Threads :
        Started(t) =>
            /\ (lastEv.th = t /\ lastEv.phase = "main" /\ lastEv.res = "err") =>
                  /\ ~retry[t]
                  /\ pc[t] \in {"loop", "receive", "flush_check", "drain_receive", "done"}
                  /\ pc[t] \in {"flush_check", "drain_receive", "done"} => stop_flag
            /\ pc[t] = "callback" => ackCalls[message[t]] = 0

\* C16: the above, and the step in which a receive or an ack of the polling
\* loop raises takes the worker to the loop test with retry cleared,
\* whatever status the callback had returned; from there, with the stop
\* event unset, the worker goes to a receive.
C16_TransportErrorResumesPolling ==
    /\ []C16_TransportErrorInv
    /\ [][\A t \in Threads :
            /\ (pc[t] \in {"receive", "dispatch"} /\ pc'[t] # pc[t]
                 /\ lastEv'.res = "err") =>
                   (pc'[t] = "loop" /\ ~retry'[t] /\ message'[t] = message[t])
            /\ (pc[t] = "loop" /\ pc'[t] # pc[t] /\ ~stop_flag /\ ~retry[t]) =>
                   pc'[t] = "receive"]_vars

\* C16 witness: the callback returned SUCCESS_STOP, the ack() that followed
\* raised, and the worker, not stopped, is at its next poll.
C16_Witness ==
    /\ status[1] = SUCCESS_STOP
    /\ lastEv = Event(1, "main", "ack", 1, "err")
    /\ ackCalls[1] = 1
    /\ ~stop_flag
    /\ pc[1] = "receive"

\* C17 as claimed (its last part): a worker that entered its flush loop has
\* ended only right after a poll that returned nothing, every message it
\* received there acknowledged.  The code does not keep this when a receive
\* or an ack of the flush loop raises.
C17_DrainEndsOnEmptyPoll ==
    \A t \in Threads :
        (Terminated(t) /\ lastEv.th = t /\ lastEv.phase = "drain") =>
            /\ lastEv = Event(t, "drain", "recv", None, "none")
            /\ \A m \in Msgs : (handling[t] < m /\ m <= delivered) => ackCalls[m] = 1

\* C18 as claimed: once the worker has ended, the Consumer holds no worker
\* handle.
C18_HandleClearedAtExit ==
    \A t \in Threads : (Started(t) /\ Terminated(t)) => consumer_thread = None

\* C18 amended: the handle is absent exactly until start() is called, start()
\* sets it to the thread it creates, and nothing clears it afterwards: after
\* the worker has ended the Consumer still holds the handle of that thread.
C18_HandleKeptAfterExit ==
    /\ [](/\ consumer_thread = None <=> (\A t \in Threads : pc[t] = "unstarted")
          /\ consumer_thread # None => Started(consumer_thread))
    /\ [][consumer_thread # None => consumer_thread' = consumer_thread]_vars

\* C18 witness: the worker has ended after stop(), join() has returned, and
\* the Consumer still holds the handle of the ended thread.
C18_Witness ==
    /\ stop_flag
    /\ pc[1] = "done"
    /\ joinPc = "returned"
    /\ joinTarget = 1
    /\ consumer_thread = 1

\* C19, state part: while the last thing a worker did is a poll of the
\* polling loop that returned nothing, no retry is outstanding and the worker
\* is at the loop test or the poll after it or, with the stop event set, on
\* its way out: it is not at the callback and not acting on a status.
C19_TimeoutInv ==
    \A t \in Threads :
        (Started(t) /\ lastEv = Event(t, "main", "recv", None, "none")) =>
            /\ ~retry[t]
            /\ pc[t] \in {"loop", "receive", "flush_check", "drain_receive", "done"}
            /\ pc[t] \in {"flush_check", "drain_receive", "done"} => stop_flag

\* C19: the above, and the step of a poll that returns nothing calls no
\* callback and no ack, leaves retry unset and takes the worker to the loop
\* test, where it reads the stop event: unset, it polls again; set, it
\* leaves the loop.
C19_TimeoutRepolls ==
    /\ []C19_TimeoutInv
    /\ [][\A t \in Threads :
            /\ (pc[t] = "receive" /\ pc'[t] # pc[t] /\ lastEv'.res = "none") =>
                  /\ pc'[t] = "loop"
                  /\ ~retry[t] /\ ~retry'[t]
                  /\ UNCHANGED <<ackCalls, handling, obs, status, delivered>>
            /\ (pc[t] = "loop" /\ pc'[t] # pc[t] /\ ~retry[t]) =>
                  pc'[t] = IF stop_flag THEN "flush_check" ELSE "receive"]_vars

\* C19 witness: after the first message was handled and acknowledged, a
\* poll returned nothing and the worker, not stopped, is at its next poll.
C19_Witness ==
    /\ lastEv = Event(1, "main", "recv", None, "none")
    /\ delivered = 1
    /\ ackCalls[1] = 1
    /\ ~stop_flag
    /\ pc[1] = "receive"

\* C20, state part: inside get_producer() no Producer exists before
\* register() is over; a Producer was returned only after register() ran
\* (the types were listed) and returned, so the type exists; when register()
\* raised, get_producer() raised and returned no Producer.
C20_GetProducerInv ==
    \A c \in Callers :
        /\ gpCall[c] => (gpResult[c] = "none" /\ rpc[c] # "idle")
        /\ gpResult[c] = "producer" =>
              /\ ~gpCall[c]
              /\ rpc[c] = "idle"
              /\ rseen[c] \in {"present", "absent"}
              /\ rtype[c] \in registered
              /\ rerr[c] \notin OtherErrors
        /\ gpResult[c] = "raised" => rerr[c] \in OtherErrors

\* C20: the above; a Producer is constructed only in the step that follows a
\* register() that returned; and get_consumer() leaves the admin interface
\* and every register() in progress alone.
C20_RegisterBeforeProducer ==
    /\ []C20_GetProducerInv
    /\ [][\A c \in Callers :
            /\ (gpResult'[c] = "producer" /\ gpResult[c] # "producer") =>
                  (gpCall[c] /\ rpc[c] = "returned")
            /\ consumersMade' # consumersMade =>
                  UNCHANGED <<registered, created, rpc, rtype, rseen, rerr, rcalls>>
          ]_vars

\* C20 witness: one caller's get_producer() created the type and returned a
\* Producer, the other's raised with register()'s error and returned none,
\* and get_consumer() was called: the type was created once.
C20_Witness ==
    /\ gpResult[1] = "producer"
    /\ rseen[1] = "absent"
    /\ created[rtype[1]] = 1
    /\ gpResult[2] = "raised"
    /\ consumersMade = 1
    /\ \A ty \in MessageTypes : created[ty] <= 1

\* C21 as claimed: deregister() never raises because the type is absent,
\* also when another caller removed it between the listing and the removal,
\* and when deregister() has returned the type deregistered is one it found
\* absent or removed itself.  The code does not keep the first part.
C21_DeregisterToleratesAbsent ==
    \A c \in Callers :
        dpc[c] = "raised" => derr[c] \notin AbsentErrors

\* C22 as claimed: every poll of the polling loop is made with the timeout
\* the Consumer was constructed with.  The code passes a constant of the
\* module ha.const instead and never reads self.timeout.
C22_PollUsesConfiguredTimeout ==
    (lastEv.op = "recv" /\ lastEv.phase = "main") => pollTimeout = <<timeout>>

C24_StopFlagLeadsToDrain ==
    [][\A t \in Threads :
         /\ (pc[t] = "loop" /\ pc'[t] = "flush_check") => stop_flag
         /\ (stopCalls = 1 /\ stopArg /\ stop_flag) => flush_on_exit
         /\ (stopCalls = 1 /\ stopArg /\ stop_flag
               /\ pc[t] = "flush_check" /\ pc'[t] # pc[t]) =>
               pc'[t] = "drain_receive"
      ]_vars

\* a worker whose callback never ran left the loop at the loop test, after
\* the one stop(flush=True), and is in the flush loop
C24_Witness ==
    /\ stopCalls = 1
    /\ stopArg
    /\ stop_flag
    /\ status[1] = "unset"
    /\ pc[1] = "drain_receive"

\* positions of run() outside the polling loop's body
NoPoll == {"unstarted", "loop"} \cup PostLoop

\* C25: the stop flag, once set, stays set, whatever start() calls follow.
\* A worker that is not yet started, or at its loop test without having run
\* the callback, when the flag is set (every worker a later start() creates)
\* never receives in the polling loop and never runs the callback: from the
\* loop test it goes to the test of the flush flag, from there into the flush
\* loop if the flush flag is true and to its end otherwise, and the only
\* transport calls it makes are those of the flush loop.  Every worker
\* running when the flag is set, or started after, terminates: a state with
\* no worker running follows.
C25_NotRestartable ==
    /\ [][stop_flag => stop_flag']_vars
    /\ [][\A t \in Threads :
            (stop_flag /\ pc[t] \in NoPoll /\ handling[t] = None) =>
               /\ pc'[t] \in NoPoll
               /\ handling'[t] = None
               /\ (pc[t] = "loop" /\ pc'[t] # pc[t]) => pc'[t] = "flush_check"
               /\ (pc[t] = "flush_check" /\ pc'[t] # pc[t]) =>
                     pc'[t] = IF flush_on_exit THEN "drain_receive" ELSE "done"
               /\ (lastEv' # lastEv /\ lastEv'.th = t) => lastEv'.phase = "drain"
       ]_vars
    /\ stop_flag ~> (\A t \in Threads : ~Running(t))

\* the first worker handled and acknowledged a message and ended on stop();
\* the worker of a second start() flushed the next message without the
\* callback and ended
C25_Witness ==
    /\ stop_flag
    /\ pc[1] = "done"
    /\ handling[1] = 1
    /\ consumer_thread = 2
    /\ pc[2] = "done"
    /\ handling[2] = None
    /\ lastEv = Event(2, "drain", "recv", None, "none")
    /\ ackCalls[2] = 1

\* the worker whose handle the Consumer holds ended by an exception
WorkerCrashed == consumer_thread # None /\ pc[consumer_thread] = "crashed"

\* C26: a transport error in the flush loop is not caught.  The step in which
\* receive() or ack() raises there ends the worker; it ends nowhere else by an
\* exception.  The ended worker takes no further step: no receive and no ack
\* follow, so no message is delivered or acknowledged any more, and every
\* message still in the topic has no ack.  A join() waiting for the worker
\* returns.
C26_DrainErrorEndsWorker ==
    /\ [][\A t \in Threads :
            /\ (pc[t] \in {"drain_receive", "drain_ack"} /\ pc'[t] # pc[t]
                  /\ lastEv'.res = "err") => pc'[t] = "crashed"
            /\ (pc[t] # "crashed" /\ pc'[t] = "crashed") =>
                  /\ pc[t] \in {"drain_receive", "drain_ack"}
                  /\ lastEv'.th = t
                  /\ lastEv'.phase = "drain"
                  /\ lastEv'.res = "err"
            /\ pc[t] = "crashed" =>
                  /\ pc'[t] = "crashed"
                  /\ consumer_thread = t => UNCHANGED <<lastEv, delivered, ackCalls>>
       ]_vars
    /\ [](WorkerCrashed =>
            \A m \in Msgs : (delivered < m /\ m <= produced) => ackCalls[m] = 0)
    /\ (joinPc = "waiting" /\ WorkerCrashed) ~> (joinPc = "returned")

\* ack() raised on the first flushed message while two more were in the
\* topic; the worker ended and a join() waiting for it returned
C26_Witness ==
    /\ pc[1] = "crashed"
    /\ lastEv = Event(1, "drain", "ack", 1, "err")
    /\ delivered = 1
    /\ produced = 3
    /\ ackCalls = [m \in Msgs |-> IF m = 1 THEN 1 ELSE 0]
    /\ joinTarget = 1
    /\ joinPc = "returned"

====
